---- MODULE Spec2Model ----
(***************************************************************************)
(* Model of geotiler/map.py: the Map object (extent, zoom, size and the    *)
(* derived reference tile coordinate / pixel offset), the projection       *)
(* helpers calculateMapCenter and calculateMapExtent, the two conversions  *)
(* locationPoint / pointLocation and the tile grid walk of render_map.     *)
(*                                                                         *)
(* Python floats are modelled as exact rationals <<n, d>> (d > 0, lowest   *)
(* terms).  Core.Coordinate and the provider are not part of map.py; they  *)
(* are modelled from their description (quad-tree coordinate, identity-    *)
(* like projection at a fixed provider zoom).                              *)
(***************************************************************************)
EXTENDS Integers, Sequences, FiniteSets, TLC

(***************************************************************************)
(* Bounds of the model.                                                    *)
(***************************************************************************)
MaxLoc == 3          \* second extent corner: x in 0..MaxLoc, y in 1..MaxLoc
MaxZoomArg == 2      \* zoom arguments are drawn from 0..MaxZoomArg
MaxW == 9            \* image widths passed to the size setter: 0, MaxW - 1, MaxW
MaxH == 5            \* image heights passed to the size setter: MaxH - 1, MaxH
MaxProbe == 7        \* probe locations are i / ProbeDen, i in 0..MaxProbe
ProbeDen == 3        \* denominator of the probe locations
MAX_ZOOM == 5        \* Core.Coordinate.MAX_ZOOM, scaled down

(***************************************************************************)
(* Exact rational arithmetic standing for Python float arithmetic.         *)
(***************************************************************************)
Abs(i) == IF i < 0 THEN -i ELSE i

RECURSIVE Gcd(_, _)
Gcd(a, b) == IF b = 0 THEN a ELSE Gcd(b, a % b)

\* the rational n / d in lowest terms with a positive denominator
Rat(n, d) ==
    LET s == IF d < 0 THEN -1 ELSE 1
        g == Gcd(Abs(n), Abs(d))
    IN  <<(s * n) \div g, (s * d) \div g>>

I2R(i) == <<i, 1>>
RAdd(p, q) == Rat(p[1] * q[2] + q[1] * p[2], p[2] * q[2])
RSub(p, q) == Rat(p[1] * q[2] - q[1] * p[2], p[2] * q[2])
RMul(p, q) == Rat(p[1] * q[1], p[2] * q[2])
RDiv(p, q) == Rat(p[1] * q[2], p[2] * q[1])
RLe(p, q) == p[1] * q[2] <= q[1] * p[2]
RLt(p, q) == p[1] * q[2] < q[1] * p[2]
RAbs(p) == <<Abs(p[1]), p[2]>>
RMin(p, q) == IF RLe(p, q) THEN p ELSE q
RMax(p, q) == IF RLe(p, q) THEN q ELSE p
IMin(a, b) == IF a <= b THEN a ELSE b

\* math.floor
Floor(p) == p[1] \div p[2]

\* int(): truncation toward zero
Trunc(p) == IF p[1] >= 0 THEN p[1] \div p[2] ELSE -((-p[1]) \div p[2])

\* round(): nearest integer, ties to the even neighbour
Round(p) ==
    LET f == Floor(p)
        twice == 2 * (p[1] - f * p[2])      \* 2 * fractional part * p[2]
    IN  IF twice < p[2] THEN f
        ELSE IF twice > p[2] THEN f + 1
        ELSE IF f % 2 = 0 THEN f ELSE f + 1

\* math.pow(2, k) for an integer k of either sign
RECURSIVE IPow2(_)
IPow2(n) == IF n = 0 THEN 1 ELSE 2 * IPow2(n - 1)
Pow2(k) == IF k >= 0 THEN <<IPow2(k), 1>> ELSE <<1, IPow2(-k)>>

\* math.ceil(math.log(q) / math.log(2)) for q > 0: the least k with q <= 2^k
RECURSIVE CeilLog2Up(_, _)
CeilLog2Up(q, k) == IF RLe(q, Pow2(k)) THEN k ELSE CeilLog2Up(q, k + 1)
RECURSIVE CeilLog2Down(_, _)
CeilLog2Down(q, k) == IF RLe(q, Pow2(k - 1)) THEN CeilLog2Down(q, k - 1) ELSE k
CeilLog2(q) == IF RLe(q, <<1, 1>>) THEN CeilLog2Down(q, 0) ELSE CeilLog2Up(q, 1)

(***************************************************************************)
(* shapely Point, Python None, Core.Coordinate.                            *)
(***************************************************************************)
None == [none |-> TRUE]

Point(px, py) == [x |-> px, y |-> py]

Coordinate(r, c, z) == [row |-> r, column |-> c, zoom |-> z]

\* rescale row and column by 2^(z - zoom)
zoomTo(c, z) ==
    Coordinate(RMul(c.row, Pow2(z - c.zoom)), RMul(c.column, Pow2(z - c.zoom)), z)

\* the integral tile containing the coordinate
container(c) == Coordinate(I2R(Floor(c.row)), I2R(Floor(c.column)), c.zoom)

left(c) == Coordinate(c.row, RSub(c.column, I2R(1)), c.zoom)
right(c) == Coordinate(c.row, RAdd(c.column, I2R(1)), c.zoom)
up(c) == Coordinate(RSub(c.row, I2R(1)), c.column, c.zoom)
down(c) == Coordinate(RAdd(c.row, I2R(1)), c.column, c.zoom)

(***************************************************************************)
(* The provider: tile dimensions and an identity-like projection at a      *)
(* fixed provider zoom (row = y, column = x).                              *)
(***************************************************************************)
tile_width == 2
tile_height == 4
provider_zoom == 2

\* provider.locationCoordinate; a location that is None cannot be projected
locationCoordinate(location) == Coordinate(location.y, location.x, provider_zoom)

\* provider.coordinateLocation
coordinateLocation(coord) ==
    LET c == zoomTo(coord, provider_zoom) IN Point(c.column, c.row)

(***************************************************************************)
(* calculateMapCenter, calculateMapExtent.                                 *)
(***************************************************************************)
calculateMapCenter(centerCoord) ==
    LET initTileCoord == container(centerCoord)
        initX == RMul(RSub(initTileCoord.column, centerCoord.column), I2R(tile_width))
        initY == RMul(RSub(initTileCoord.row, centerCoord.row), I2R(tile_height))
    IN  <<initTileCoord, Point(Round(initX), Round(initY))>>

\* bounding box of the two projected corners
ExtentTL(a, b) == Coordinate(RMin(a.row, b.row), RMin(a.column, b.column),
                             IMin(a.zoom, b.zoom))
ExtentBR(a, b) == Coordinate(RMax(a.row, b.row), RMax(a.column, b.column),
                             IF a.zoom >= b.zoom THEN a.zoom ELSE b.zoom)

\* The exception calculateMapExtent raises, "ok" when it returns.  The
\* statements run in source order: hFactor, log(hFactor), vFactor, log(vFactor).
calculateMapExtentError(width, height, p1, p2) ==
    LET a == locationCoordinate(p1)
        b == locationCoordinate(p2)
        TL == ExtentTL(a, b)
        BR == ExtentBR(a, b)
    IN  IF width = 0 THEN "ZeroDivisionError"
        ELSE IF BR.column = TL.column THEN "ValueError"
        ELSE IF height = 0 THEN "ZeroDivisionError"
        ELSE IF BR.row = TL.row THEN "ValueError"
        ELSE "ok"

\* calculateMapExtentZoom taking the finer of the two candidate zooms
calculateMapExtentZoomMax(width, height, p1, p2) ==
    LET a == locationCoordinate(p1)
        b == locationCoordinate(p2)
        TL == ExtentTL(a, b)
        BR == ExtentBR(a, b)
        hFactor == RDiv(RSub(BR.column, TL.column), RDiv(I2R(width), I2R(tile_width)))
        hPossibleZoom == TL.zoom - CeilLog2(hFactor)
        vFactor == RDiv(RSub(BR.row, TL.row), RDiv(I2R(height), I2R(tile_height)))
        vPossibleZoom == TL.zoom - CeilLog2(vFactor)
    IN  IF hPossibleZoom >= vPossibleZoom THEN hPossibleZoom ELSE vPossibleZoom

\* the zoom calculateMapExtent selects (initZoom)
calculateMapExtentZoom(width, height, p1, p2) ==
    LET a == locationCoordinate(p1)
        b == locationCoordinate(p2)
        TL == ExtentTL(a, b)
        BR == ExtentBR(a, b)
        hFactor == RDiv(RSub(BR.column, TL.column), RDiv(I2R(width), I2R(tile_width)))
        hPossibleZoom == TL.zoom - CeilLog2(hFactor)
        vFactor == RDiv(RSub(BR.row, TL.row), RDiv(I2R(height), I2R(tile_height)))
        vPossibleZoom == TL.zoom - CeilLog2(vFactor)
    IN  IMin(hPossibleZoom, vPossibleZoom)

calculateMapExtent(width, height, p1, p2) ==
    LET a == locationCoordinate(p1)
        b == locationCoordinate(p2)
        TL == ExtentTL(a, b)
        BR == ExtentBR(a, b)
        initZoom == calculateMapExtentZoom(width, height, p1, p2)
        centerRow == RDiv(RAdd(TL.row, BR.row), I2R(2))
        centerColumn == RDiv(RAdd(TL.column, BR.column), I2R(2))
        centerZoom == (TL.zoom + BR.zoom) \div 2
        centerCoord == zoomTo(Coordinate(centerRow, centerColumn, centerZoom), initZoom)
    IN  calculateMapCenter(centerCoord)

(***************************************************************************)
(* The Map object.  center is Map._center, which __init__ sets to None and *)
(* no method assigns afterwards.  op is the last operation called on the   *)
(* map and err the exception it raised ("ok" when it returned).            *)
(***************************************************************************)
VARIABLES extent, zoom, size, coordinate, offset, center, op, err

vars == <<extent, zoom, size, coordinate, offset, center, op, err>>

\* pointLocation rounding at the map's own zoom instead of MAX_ZOOM
pointLocationNativeRound(coord0, off, sz, point) ==
    LET w == sz[1]
        h == sz[2]
        pt == Point(RSub(point.x, Rat(w, 2)), RSub(point.y, Rat(h, 2)))
        xTiles == RDiv(RSub(pt.x, I2R(off.x)), I2R(tile_width))
        yTiles == RDiv(RSub(pt.y, I2R(off.y)), I2R(tile_height))
        coord == Coordinate(I2R(Round(RAdd(coord0.row, yTiles))),
                            I2R(Round(RAdd(coord0.column, xTiles))),
                            coord0.zoom)
    IN  coordinateLocation(coord)

\* Map.pointLocation on a map with the given coordinate, offset and _size
pointLocation(coord0, off, sz, point) ==
    LET hizoomCoord == zoomTo(coord0, MAX_ZOOM)
        w == sz[1]
        h == sz[2]
        pt == Point(RSub(point.x, Rat(w, 2)), RSub(point.y, Rat(h, 2)))
        xTiles == RDiv(RSub(pt.x, I2R(off.x)), I2R(tile_width))
        yTiles == RDiv(RSub(pt.y, I2R(off.y)), I2R(tile_height))
        xDistance == RMul(xTiles, Pow2(MAX_ZOOM - coord0.zoom))
        yDistance == RMul(yTiles, Pow2(MAX_ZOOM - coord0.zoom))
        coord == Coordinate(I2R(Round(RAdd(hizoomCoord.row, yDistance))),
                            I2R(Round(RAdd(hizoomCoord.column, xDistance))),
                            hizoomCoord.zoom)
    IN  coordinateLocation(zoomTo(coord, coord0.zoom))

\* Map.locationPoint on a map with the given coordinate, offset and _size
locationPoint(coord0, off, sz, location) ==
    LET coord == zoomTo(locationCoordinate(location), coord0.zoom)
        w == sz[1]
        h == sz[2]
        px == RAdd(I2R(off.x),
                   RMul(I2R(tile_width), RSub(coord.column, coord0.column)))
        py == RAdd(I2R(off.y),
                   RMul(I2R(tile_height), RSub(coord.row, coord0.row)))
    IN  Point(RAdd(px, Rat(w, 2)), RAdd(py, Rat(h, 2)))

\* _on_change_extent_zoom without abs() on the corner differences
on_change_extent_zoom_NoAbs(ext, z) ==
    LET p1 == Point(ext[1], ext[2])
        p2 == Point(ext[3], ext[4])
        coord_a == zoomTo(locationCoordinate(p1), z)
        coord_b == zoomTo(locationCoordinate(p2), z)
        width == RMul(RSub(coord_a.column, coord_b.column), I2R(tile_width))
        height == RMul(RSub(coord_a.row, coord_b.row), I2R(tile_height))
        center_coord == Coordinate(RDiv(RAdd(coord_a.row, coord_b.row), I2R(2)),
                                   RDiv(RAdd(coord_a.column, coord_b.column), I2R(2)),
                                   z)
        mc == calculateMapCenter(center_coord)
    IN  [coordinate |-> mc[1], offset |-> mc[2],
         size |-> <<Trunc(width), Trunc(height)>>]

\* Map._on_change_extent_zoom: the coordinate, offset and _size it assigns
on_change_extent_zoom(ext, z) ==
    LET p1 == Point(ext[1], ext[2])
        p2 == Point(ext[3], ext[4])
        coord_a == zoomTo(locationCoordinate(p1), z)
        coord_b == zoomTo(locationCoordinate(p2), z)
        width == RMul(RAbs(RSub(coord_a.column, coord_b.column)), I2R(tile_width))
        height == RMul(RAbs(RSub(coord_a.row, coord_b.row)), I2R(tile_height))
        center_coord == Coordinate(RDiv(RAdd(coord_a.row, coord_b.row), I2R(2)),
                                   RDiv(RAdd(coord_a.column, coord_b.column), I2R(2)),
                                   z)
        mc == calculateMapCenter(center_coord)
    IN  [coordinate |-> mc[1], offset |-> mc[2],
         size |-> <<Trunc(width), Trunc(height)>>]

\* inputs
Locs == 0 .. MaxLoc
Extents == {<<I2R(1), I2R(MaxLoc - 1), I2R(x2), I2R(y2)>> :
                x2 \in Locs, y2 \in Locs \ {0}}
Zooms == 0 .. MaxZoomArg
Sizes == {<<0, MaxH>>, <<MaxW - 1, MaxH - 1>>, <<MaxW, MaxH>>}

\* Map.__init__(extent, zoom)
Construct(e, z) ==
    LET m == on_change_extent_zoom(e, z)
    IN  /\ extent = e
        /\ center = None
        /\ zoom = z
        /\ coordinate = m.coordinate
        /\ offset = m.offset
        /\ size = m.size
        /\ op = "Construct"
        /\ err = "ok"

Init == \E e \in Extents, z \in Zooms : Construct(e, z)

\* Map.extent = e: the assignment to _extent, then _on_change_extent
SetExtent(e) ==
    LET width == size[1]
        height == size[2]
        p1 == Point(e[1], e[2])
        p2 == Point(e[3], e[4])
        error == calculateMapExtentError(width, height, p1, p2)
        mc == calculateMapExtent(width, height, p1, p2)
    IN  /\ extent' = e
        /\ op' = "SetExtent"
        /\ err' = error
        /\ IF error = "ok"
           THEN coordinate' = mc[1] /\ offset' = mc[2]
           ELSE UNCHANGED <<coordinate, offset>>
        /\ UNCHANGED <<zoom, size, center>>

\* Map.zoom = z: the assignment to _zoom, then _on_change_zoom, which
\* projects _center
SetZoom(z) ==
    /\ zoom' = z
    /\ op' = "SetZoom"
    /\ IF center = None
       THEN err' = "AttributeError" /\ UNCHANGED <<coordinate, offset>>
       ELSE LET center_coord == zoomTo(locationCoordinate(center), z)
                mc == calculateMapCenter(center_coord)
            IN  err' = "ok" /\ coordinate' = mc[1] /\ offset' = mc[2]
    /\ UNCHANGED <<extent, size, center>>

\* the size setter taking the top-left and bottom-right pixel corners
SetSizeSwappedCorners(s) ==
    LET w == s[1]
        h == s[2]
        p1 == pointLocation(coordinate, offset, s, Point(I2R(0), I2R(0)))
        p2 == pointLocation(coordinate, offset, s, Point(I2R(w), I2R(h)))
    IN  /\ size' = s
        /\ extent' = <<p1.x, p1.y, p2.x, p2.y>>
        /\ op' = "SetSize"
        /\ err' = "ok"
        /\ UNCHANGED <<zoom, coordinate, offset, center>>

\* Map.size = s: the assignment to _size, then _on_change_size
SetSize(s) ==
    LET w == s[1]
        h == s[2]
        p1 == pointLocation(coordinate, offset, s, Point(I2R(0), I2R(h)))
        p2 == pointLocation(coordinate, offset, s, Point(I2R(w), I2R(0)))
    IN  /\ size' = s
        /\ extent' = <<p1.x, p1.y, p2.x, p2.y>>
        /\ op' = "SetSize"
        /\ err' = "ok"
        /\ UNCHANGED <<zoom, coordinate, offset, center>>

\* m.extent = m.extent: the caller hands the map's current extent back to
\* the extent setter
SetExtentCurrent == SetExtent(extent)

Next ==
    \/ \E e \in Extents : SetExtent(e)
    \/ SetExtentCurrent
    \/ \E z \in Zooms : SetZoom(z)
    \/ \E s \in Sizes : SetSize(s)

Spec == Init /\ [][Next]_vars

(***************************************************************************)
(* render_map: the list of tile requests handed to render_tiles.           *)
(***************************************************************************)
TileRequest(coord, dest) == [coordinate |-> coord, point |-> dest]

\* the left walk stopping one tile early (corner.x > tile_width)
RECURSIVE WalkLeftOffByOne(_)
WalkLeftOffByOne(s) ==
    IF s.x > tile_width
    THEN WalkLeftOffByOne([x |-> s.x - tile_width, y |-> s.y, coord |-> left(s.coord)])
    ELSE s

\* while corner.x > 0: step one tile left
RECURSIVE WalkLeft(_)
WalkLeft(s) == IF s.x > 0
               THEN WalkLeft([x |-> s.x - tile_width, y |-> s.y, coord |-> left(s.coord)])
               ELSE s

\* while corner.y > 0: step one tile up
RECURSIVE WalkUp(_)
WalkUp(s) == IF s.y > 0
             THEN WalkUp([x |-> s.x, y |-> s.y - tile_height, coord |-> up(s.coord)])
             ELSE s

\* for x in range(x, w, tile_width)
RECURSIVE RowTiles(_, _, _, _)
RowTiles(x, y, tileCoord, w) ==
    IF x < w
    THEN <<TileRequest(tileCoord, Point(x, y))>>
             \o RowTiles(x + tile_width, y, right(tileCoord), w)
    ELSE <<>>

\* for y in range(y, h, tile_height)
RECURSIVE GridTiles(_, _, _, _, _)
GridTiles(x, y, rowCoord, w, h) ==
    IF y < h
    THEN RowTiles(x, y, rowCoord, w)
             \o GridTiles(x, y + tile_height, down(rowCoord), w, h)
    ELSE <<>>

render_map(coord0, off, sz) ==
    LET w == sz[1]
        h == sz[2]
        corner0 == [x |-> Trunc(RAdd(I2R(off.x), Rat(w, 2))),
                    y |-> Trunc(RAdd(I2R(off.y), Rat(h, 2))),
                    coord |-> coord0]
        corner == WalkUp(WalkLeft(corner0))
    IN  GridTiles(corner.x, corner.y, corner.coord, w, h)

\* locations probed by the round trip: (i / ProbeDen, (MaxProbe - i) / ProbeDen)
ProbeLocs == {Point(Rat(i, ProbeDen), Rat(MaxProbe - i, ProbeDen)) : i \in 0 .. MaxProbe}

(***************************************************************************)
(* Claims.                                                                 *)
(***************************************************************************)

\* C1: after the extent setter returns, Map.zoom equals the zoom of the newly
\* derived Map.coordinate (the zoom calculateMapExtent selected).
C1_ZoomReflectsFit ==
    (op = "SetExtent" /\ err = "ok") => zoom = coordinate.zoom

\* C2: setting Map.zoom succeeds and recomputes (coordinate, offset) as
\* calculateMapCenter of the current visual center (the location under the
\* middle pixel of the image) projected to the new zoom.
C2_SetZoomRecomputesCenter ==
    [][op' = "SetZoom" =>
          LET visual == pointLocation(coordinate, offset, size,
                                      Point(Rat(size[1], 2), Rat(size[2], 2)))
              mc == calculateMapCenter(zoomTo(locationCoordinate(visual), zoom'))
          IN  /\ err' = "ok"
              /\ coordinate' = mc[1]
              /\ offset' = mc[2]]_vars

\* C3: a mutator that raises leaves extent, zoom, size, coordinate and offset
\* as they were before the call.
C3_FailedMutatorLeavesState ==
    [][err' # "ok" =>
          /\ extent' = extent
          /\ zoom' = zoom
          /\ size' = size
          /\ coordinate' = coordinate
          /\ offset' = offset]_vars

\* C4: the destination points of render_map's tile requests form a full grid
\* spaced tile_width by tile_height, and every pixel of [0,W) x [0,H) lies in
\* the destination rectangle of exactly one tile request.
C4_TileGridCoverage ==
    LET tiles == render_map(coordinate, offset, size)
        dests == {tiles[i].point : i \in 1 .. Len(tiles)}
        xs == {d.x : d \in dests}
        ys == {d.y : d \in dests}
    IN  /\ Cardinality(dests) = Len(tiles)
        /\ dests = {Point(x, y) : x \in xs, y \in ys}
        /\ \A x \in xs : (\A x0 \in xs : x0 >= x) \/ (x - tile_width) \in xs
        /\ \A y \in ys : (\A y0 \in ys : y0 >= y) \/ (y - tile_height) \in ys
        /\ \A px \in 0 .. (size[1] - 1), py \in 0 .. (size[2] - 1) :
              Cardinality({d \in dests : /\ d.x <= px /\ px < d.x + tile_width
                                         /\ d.y <= py /\ py < d.y + tile_height}) = 1

\* C4 witness: an image of the largest size whose grid starts left of and above the image
\* and has several columns and rows.
C4_Witness ==
    LET tiles == render_map(coordinate, offset, size)
    IN  /\ size = <<MaxW, MaxH>>
        /\ Len(tiles) >= 6
        /\ tiles[1].point.x < 0
        /\ tiles[1].point.y < 0
        /\ tiles[Len(tiles)].point.y > tiles[1].point.y

\* C5: the zoom calculateMapExtent selects is the largest zoom at which the
\* projected extent fits the image: at that zoom the pixel span is at most
\* (width, height), at that zoom + 1 one of the two spans exceeds it.
C5_ExtentFitLargestZoom ==
    (op = "SetExtent" /\ err = "ok") =>
        LET a == locationCoordinate(Point(extent[1], extent[2]))
            b == locationCoordinate(Point(extent[3], extent[4]))
            spanW(z) == RMul(RAbs(RSub(zoomTo(a, z).column, zoomTo(b, z).column)),
                             I2R(tile_width))
            spanH(z) == RMul(RAbs(RSub(zoomTo(a, z).row, zoomTo(b, z).row)),
                             I2R(tile_height))
            fits(z) == RLe(spanW(z), I2R(size[1])) /\ RLe(spanH(z), I2R(size[2]))
        IN  fits(coordinate.zoom) /\ ~fits(coordinate.zoom + 1)

\* C5 witness: a fit decided by the height (the width would still fit one zoom
\* further in) that selects a zoom other than the map's stored zoom.
C5_Witness ==
    /\ op = "SetExtent" /\ err = "ok"
    /\ coordinate.zoom # zoom
    /\ LET a == locationCoordinate(Point(extent[1], extent[2]))
           b == locationCoordinate(Point(extent[3], extent[4]))
           z == coordinate.zoom + 1
       IN  /\ RLe(RMul(RAbs(RSub(zoomTo(a, z).column, zoomTo(b, z).column)),
                       I2R(tile_width)), I2R(size[1]))
           /\ RLt(I2R(size[2]),
                  RMul(RAbs(RSub(zoomTo(a, z).row, zoomTo(b, z).row)),
                       I2R(tile_height)))

\* C6: setting the size and then setting the extent to the extent the size
\* setter derived reproduces the coordinate and offset the map had before
\* (the size setter itself leaves both untouched).
C6_SizeExtentRoundTrip ==
    [][(op = "SetSize" /\ op' = "SetExtent" /\ extent' = extent) =>
          (coordinate' = coordinate /\ offset' = offset)]_vars

\* C7: pointLocation(locationPoint(L)) is within one row/column unit at
\* MAX_ZOOM of L, for every probed location L and every reachable map.
C7_RoundTrip ==
    \A L \in ProbeLocs :
        LET back == pointLocation(coordinate, offset, size,
                                  locationPoint(coordinate, offset, size, L))
            c1 == zoomTo(locationCoordinate(L), MAX_ZOOM)
            c2 == zoomTo(locationCoordinate(back), MAX_ZOOM)
        IN  /\ RLe(RAbs(RSub(c2.column, c1.column)), I2R(1))
            /\ RLe(RAbs(RSub(c2.row, c1.row)), I2R(1))

\* C7 witness: a map derived by the extent setter on which the round trip of
\* some probed location is not exact.
C7_Witness ==
    /\ op = "SetExtent" /\ err = "ok"
    /\ \E L \in ProbeLocs :
          pointLocation(coordinate, offset, size,
                        locationPoint(coordinate, offset, size, L)) # L

\* C8: the size setter leaves coordinate, offset and zoom unchanged and stores
\* as extent the locations of the pixel corners (0, h) and (w, 0).
C8_SetSizeFrame ==
    [][op' = "SetSize" =>
          LET w == size'[1]
              h == size'[2]
              p1 == pointLocation(coordinate, offset, size', Point(I2R(0), I2R(h)))
              p2 == pointLocation(coordinate, offset, size', Point(I2R(w), I2R(0)))
          IN  /\ coordinate' = coordinate
              /\ offset' = offset
              /\ zoom' = zoom
              /\ extent' = <<p1.x, p1.y, p2.x, p2.y>>]_vars

\* C8 witness: the size setter has stored the largest size and an extent whose
\* first corner lies left of and below the second one.
C8_Witness ==
    /\ op = "SetSize"
    /\ size = <<MaxW, MaxH>>
    /\ RLt(extent[1], extent[3])
    /\ RLt(extent[4], extent[2])

\* C9: after construction size, coordinate and offset are set, and size is
\* (|colA - colB| * tile_width, |rowA - rowB| * tile_height) truncated, the
\* corners being rescaled to the given zoom.
C9_ConstructPostcondition ==
    op = "Construct" =>
        LET a == zoomTo(locationCoordinate(Point(extent[1], extent[2])), zoom)
            b == zoomTo(locationCoordinate(Point(extent[3], extent[4])), zoom)
            dc == IF RLe(a.column, b.column) THEN RSub(b.column, a.column)
                  ELSE RSub(a.column, b.column)
            dr == IF RLe(a.row, b.row) THEN RSub(b.row, a.row)
                  ELSE RSub(a.row, b.row)
            width == RMul(dc, I2R(tile_width))
            height == RMul(dr, I2R(tile_height))
        IN  /\ size # None /\ coordinate # None /\ offset # None
            /\ err = "ok"
            /\ size[1] \in Nat /\ size[2] \in Nat
            /\ I2R(size[1]) = RSub(width, Rat(width[1] % width[2], width[2]))
            /\ I2R(size[2]) = RSub(height, Rat(height[1] % height[2], height[2]))

\* C9 witness: a constructed map whose corners are in reverse order on the
\* column axis and whose width was truncated.
C9_Witness ==
    /\ op = "Construct"
    /\ RLt(extent[3], extent[1])
    /\ size[2] > 0
    /\ LET a == zoomTo(locationCoordinate(Point(extent[1], extent[2])), zoom)
           b == zoomTo(locationCoordinate(Point(extent[3], extent[4])), zoom)
       IN  RLt(I2R(size[1]), RMul(RAbs(RSub(a.column, b.column)), I2R(tile_width)))

\* C10: a degenerate extent (zero span on an axis) given to the constructor or
\* to the extent setter is rejected with a named error.
C10_DegenerateExtentRejected ==
    (/\ op \in {"Construct", "SetExtent"}
     /\ (extent[1] = extent[3] \/ extent[2] = extent[4]))
        => err \in {"DegenerateExtentError", "InvalidCoordinateError"}

====
